---- MODULE Spec2Model ----
(***************************************************************************)
(* Model of lasagne/layers/special.py: BiasLayer, TransformerLayer and the *)
(* spatial-transformer helpers _transform, _interpolate, _linspace,        *)
(* _repeat and _meshgrid.                                                  *)
(*                                                                         *)
(* float32 values are modelled as exact rationals extended with +inf, -inf *)
(* and NaN (IEEE-754 special values are what division by zero produces in  *)
(* _linspace).  Rounding of float32 arithmetic is not modelled.            *)
(* Python's None inside a shape is encoded as the integer None == -1.      *)
(* Indices are 0-based as in the source; TLA+ sequences are 1-based, so    *)
(* element i of a Python sequence s is s[i + 1].                           *)
(***************************************************************************)
EXTENDS Integers, Sequences, FiniteSets, TLC

(***************************************************************************)
(* Bounds of the model                                                     *)
(***************************************************************************)
MaxSize == 3
MaxBatch == 2

None == -1

(***************************************************************************)
(* float32 arithmetic: exact rationals n/d (d > 0, lowest terms) plus the  *)
(* IEEE special values.                                                    *)
(***************************************************************************)
Abs(a) == IF a < 0 THEN -a ELSE a

RECURSIVE GCD(_, _)
GCD(a, b) == IF b = 0 THEN a ELSE GCD(b, a % b)

Sign(a) == IF a < 0 THEN -1 ELSE IF a = 0 THEN 0 ELSE 1

\* the rational n/d (d # 0) in lowest terms with a positive denominator
F(n, d) ==
    LET g == GCD(Abs(n), Abs(d))
        s == IF d < 0 THEN -1 ELSE 1
    IN  [k |-> "num", n |-> (s * n) \div g, d |-> (s * d) \div g]

NaN == [k |-> "nan", n |-> 0, d |-> 1]
PInf == [k |-> "inf", n |-> 1, d |-> 1]
NInf == [k |-> "inf", n |-> -1, d |-> 1]
InfOf(s) == IF s < 0 THEN NInf ELSE PInf

\* T.cast(i, 'float32') of an integer
FInt(i) == F(i, 1)

IsNum(a) == a.k = "num"
IsNaN(a) == a.k = "nan"

FNeg(a) == IF a.k = "nan" THEN NaN ELSE [a EXCEPT !.n = -a.n]

FAdd(a, b) ==
    IF a.k = "nan" \/ b.k = "nan" THEN NaN
    ELSE IF a.k = "inf" /\ b.k = "inf" THEN (IF a.n = b.n THEN a ELSE NaN)
    ELSE IF a.k = "inf" THEN a
    ELSE IF b.k = "inf" THEN b
    ELSE F(a.n * b.d + b.n * a.d, a.d * b.d)

FSub(a, b) == FAdd(a, FNeg(b))

FMul(a, b) ==
    IF a.k = "nan" \/ b.k = "nan" THEN NaN
    ELSE IF a.k = "inf" \/ b.k = "inf"
         THEN (IF a.n = 0 \/ b.n = 0 THEN NaN ELSE InfOf(Sign(a.n) * Sign(b.n)))
    ELSE F(a.n * b.n, a.d * b.d)

FDiv(a, b) ==
    IF a.k = "nan" \/ b.k = "nan" THEN NaN
    ELSE IF a.k = "inf" /\ b.k = "inf" THEN NaN
    ELSE IF a.k = "inf" THEN InfOf(a.n * (IF b.n < 0 THEN -1 ELSE 1))
    ELSE IF b.k = "inf" THEN F(0, 1)
    ELSE IF b.n = 0 THEN (IF a.n = 0 THEN NaN ELSE InfOf(a.n))
    ELSE F(a.n * b.d, a.d * b.n)

\* comparisons; every comparison with NaN is false
FLt(a, b) ==
    /\ a.k # "nan" /\ b.k # "nan"
    /\ IF a.k = "inf" THEN a.n < 0 /\ ~(b.k = "inf" /\ b.n < 0)
       ELSE IF b.k = "inf" THEN b.n > 0
       ELSE a.n * b.d < b.n * a.d
FLe(a, b) == a.k # "nan" /\ b.k # "nan" /\ ~FLt(b, a)

\* floor of a number as an integer (Python-style \div rounds toward -infinity)
FloorInt(a) == a.n \div a.d

\* truncation toward zero of a number as an integer
TruncInt(a) == IF a.n >= 0 THEN a.n \div a.d ELSE -((-a.n) \div a.d)

\* T.floor
FFloor(a) == IF a.k = "num" THEN FInt(FloorInt(a)) ELSE a

\* Outcomes of T.cast(v, 'int64') when v is NaN or infinite.  The C cast is
\* undefined there: x86-64 yields the "integer indefinite" -2^63, AArch64
\* yields 0 for NaN.  Int64Min stands for -2^63 (beyond TLC's
\* integers); after x0 + 1 and T.clip every value below -1 acts alike.
Int64Min == -1048576
CastOutcomes == {Int64Min, 0}

\* T.cast(v, 'int64'): truncation toward zero; nanCast is what the build
\* produces for a value that is not a number
CastInt64(v, nanCast) == IF v.k = "num" THEN TruncInt(v) ELSE nanCast

\* T.clip(x, lo, hi) on integers
ClipNone(x, lo, hi) == x
Clip(x, lo, hi) == IF x < lo THEN lo ELSE IF x > hi THEN hi ELSE x

\* int(s / dsf) of get_output_shape_for
PyInt(v) == TruncInt(v)

(***************************************************************************)
(* Helpers of the spatial transformer                                      *)
(***************************************************************************)
\* _linspace(start, stop, num): step = (stop - start) / (num - 1);
\* arange(num) * step + start
_linspaceGuarded(start, stop, num) ==
    IF num = 1 THEN <<start>>
    ELSE [i \in 1..num |->
            FAdd(FMul(FInt(i - 1), FDiv(FSub(stop, start), FInt(num - 1))),
                 start)]
_linspace(start, stop, num) ==
    LET num_f == FInt(num)
        step == FDiv(FSub(stop, start), FSub(num_f, FInt(1)))
    IN  [i \in 1..num |-> FAdd(FMul(FInt(i - 1), step), start)]

\* _repeat(x, n_repeats): every element of x repeated n_repeats times
_repeat(x, n_repeats) ==
    [p \in 1..(Len(x) * n_repeats) |-> x[((p - 1) \div n_repeats) + 1] * 1]

\* _meshgrid(height, width): rows x_t_flat, y_t_flat, ones
_meshgrid(height, width) ==
    LET xs == _linspace(FInt(-1), FInt(1), width)
        ys == _linspace(FInt(-1), FInt(1), height)
        n == height * width
        \* T.dot(ones((height, 1)), xs as a row): x_t[i][j] = 1 * xs[j]
        x_t_flat == [p \in 1..n |-> FMul(FInt(1), xs[((p - 1) % width) + 1])]
        \* T.dot(ys as a column, ones((1, width))): y_t[i][j] = ys[i] * 1
        y_t_flat == [p \in 1..n |-> FMul(ys[((p - 1) \div width) + 1], FInt(1))]
        ones == [p \in 1..n |-> FInt(1)]
    IN  <<x_t_flat, y_t_flat, ones>>

\* T.dot(theta, grid) for theta of shape (num_batch, 2, 3) and grid of shape
\* (3, n): T_g[b][r][p] = sum_k theta[b][r][k] * grid[k][p]
Dot(theta3, grid) ==
    LET n == Len(grid[1])
    IN  [b \in 1..Len(theta3) |->
          [r \in 1..2 |->
            [p \in 1..n |->
               FAdd(FAdd(FMul(theta3[b][r][1], grid[1][p]),
                         FMul(theta3[b][r][2], grid[2][p])),
                    FMul(theta3[b][r][3], grid[3][p]))]]]

\* T.reshape(theta, (-1, 2, 3)) of a (num_batch, 6) matrix
ReshapeTheta(theta) ==
    [b \in 1..Len(theta) |->
       [r \in 1..2 |-> [k \in 1..3 |-> theta[b][(r - 1) * 3 + k]]]]

\* m.flatten() of a (num_batch, n) matrix, row-major
Flatten(m, n) ==
    [p \in 1..(Len(m) * n) |-> m[((p - 1) \div n) + 1][((p - 1) % n) + 1]]

\* shape of a 4-D tensor stored as nested sequences
Dim0(t) == Len(t)
Dim1(t) == IF Len(t) = 0 THEN 0 ELSE Len(t[1])
Dim2(t) == IF Dim1(t) = 0 THEN 0 ELSE Len(t[1][1])
Dim3(t) == IF Dim2(t) = 0 THEN 0 ELSE Len(t[1][1][1])

\* input.dimshuffle(0, 2, 3, 1): (bs, channels, height, width) ->
\* (bs, height, width, channels)
Dimshuffle0231(t) ==
    [b \in 1..Dim0(t) |-> [i \in 1..Dim2(t) |-> [j \in 1..Dim3(t) |->
        [c \in 1..Dim1(t) |-> t[b][c][i][j]]]]]

\* im.reshape((-1, channels)) of a (num_batch, height, width, channels) tensor
ImFlat(im) ==
    LET height == Dim1(im)
        width == Dim2(im)
    IN  [r \in 1..(Dim0(im) * height * width) |->
           im[((r - 1) \div (height * width)) + 1]
             [(((r - 1) \div width) % height) + 1]
             [((r - 1) % width) + 1]]

\* im_flat[idx] for one index: a negative index counts from the end, an index
\* outside [-n, n-1] is an IndexError (here: the empty row)
Gather(im_flat, idx) ==
    LET n == Len(im_flat)
    IN  IF 0 <= idx /\ idx < n THEN im_flat[idx + 1]
        ELSE IF -n <= idx /\ idx < 0 THEN im_flat[idx + n + 1]
        ELSE <<>>
IndexOk(n, idx) == -n <= idx /\ idx < n

\* the bilinear weights wa, wb, wc, wd of _interpolate, from the scaled
\* coordinates and the clipped corners
BilinearWeightsUnclipped(xp, yp, x0, x1, y0, y1) ==
    LET x0_f == FInt(x0)
        x1_f == FInt(x0 + 1)
        y0_f == FInt(y0)
        y1_f == FInt(y0 + 1)
    IN  [wa |-> FMul(FSub(x1_f, xp), FSub(y1_f, yp)),
         wb |-> FMul(FSub(x1_f, xp), FSub(yp, y0_f)),
         wc |-> FMul(FSub(xp, x0_f), FSub(y1_f, yp)),
         wd |-> FMul(FSub(xp, x0_f), FSub(yp, y0_f))]
BilinearWeights(xp, yp, x0, x1, y0, y1) ==
    LET x0_f == FInt(x0)
        x1_f == FInt(x1)
        y0_f == FInt(y0)
        y1_f == FInt(y1)
    IN  [wa |-> FMul(FSub(x1_f, xp), FSub(y1_f, yp)),
         wb |-> FMul(FSub(x1_f, xp), FSub(yp, y0_f)),
         wc |-> FMul(FSub(xp, x0_f), FSub(y1_f, yp)),
         wd |-> FMul(FSub(xp, x0_f), FSub(yp, y0_f))]

\* _interpolate(im, x, y, out_height, out_width) for im of shape
\* (num_batch, height, width, channels) with integral pixel values.  The
\* result has one record per output pixel: the scaled coordinates, the
\* clipped corners, the four flat indices, the four weights and the
\* interpolated row `out` (one value per channel).
_interpolate(im, x, y, out_height, out_width, nanCast) ==
    LET num_batch == Dim0(im)
        height == Dim1(im)
        width == Dim2(im)
        channels == Dim3(im)
        height_f == FInt(height)
        width_f == FInt(width)
        zero == 0
        max_y == height - 1
        max_x == width - 1
        dim2 == width
        dim1 == width * height
        base == _repeat([b \in 1..num_batch |-> (b - 1) * dim1],
                        out_height * out_width)
        im_flat == ImFlat(im)
        Row(idx) == IF IndexOk(Len(im_flat), idx) THEN Gather(im_flat, idx)
                    ELSE [c \in 1..channels |-> 0]
        Pixel(p) ==
            LET xp == FDiv(FMul(FAdd(x[p], FInt(1)), width_f), FInt(2))
                yp == FDiv(FMul(FAdd(y[p], FInt(1)), height_f), FInt(2))
                x0r == CastInt64(FFloor(xp), nanCast)
                x1r == x0r + 1
                y0r == CastInt64(FFloor(yp), nanCast)
                y1r == y0r + 1
                x0 == Clip(x0r, zero, max_x)
                x1 == Clip(x1r, zero, max_x)
                y0 == Clip(y0r, zero, max_y)
                y1 == Clip(y1r, zero, max_y)
                base_y0 == base[p] + y0 * dim2
                base_y1 == base[p] + y1 * dim2
                idx_a == base_y0 + x0
                idx_b == base_y1 + x0
                idx_c == base_y0 + x1
                idx_d == base_y1 + x1
                Ia == Row(idx_a)
                Ib == Row(idx_b)
                Ic == Row(idx_c)
                Id == Row(idx_d)
                w == BilinearWeights(xp, yp, x0, x1, y0, y1)
                wa == w.wa
                wb == w.wb
                wc == w.wc
                wd == w.wd
            IN  [x |-> xp, y |-> yp,
                 x0 |-> x0, x1 |-> x1, y0 |-> y0, y1 |-> y1,
                 idx_a |-> idx_a, idx_b |-> idx_b,
                 idx_c |-> idx_c, idx_d |-> idx_d,
                 wa |-> wa, wb |-> wb, wc |-> wc, wd |-> wd,
                 out |-> [c \in 1..channels |->
                            FAdd(FAdd(FAdd(FMul(wa, FInt(Ia[c])),
                                           FMul(wb, FInt(Ib[c]))),
                                      FMul(wc, FInt(Ic[c]))),
                                 FMul(wd, FInt(Id[c])))]]
    IN  [p \in 1..Len(x) |-> Pixel(p)]

\* out_height / out_width of _transform:
\* T.cast(T.cast(size, 'float32') / downsample_factor, 'int64')
OutSizeRound(size, downsample_factor, nanCast) ==
    LET q == FDiv(FInt(size), downsample_factor)
    IN  IF q.k = "num" THEN (2 * q.n + q.d) \div (2 * q.d) ELSE nanCast
OutSize(size, downsample_factor, nanCast) ==
    CastInt64(FDiv(FInt(size), downsample_factor), nanCast)

\* T_g = T.dot(theta, grid); x_s = T_g[:, 0]; y_s = T_g[:, 1]; flatten
SourceCoords(theta, grid) ==
    LET T_g == Dot(ReshapeTheta(theta), grid)
        n == Len(grid[1])
    IN  [x_s_flat |-> Flatten([b \in 1..Len(theta) |-> T_g[b][1]], n),
         y_s_flat |-> Flatten([b \in 1..Len(theta) |-> T_g[b][2]], n)]

\* T.reshape(input_transformed, (num_batch, out_height, out_width,
\* num_channels)).dimshuffle(0, 3, 1, 2)
ReshapeOutput(rows, num_batch, out_height, out_width, num_channels) ==
    [b \in 1..num_batch |-> [c \in 1..num_channels |->
       [i \in 1..out_height |-> [j \in 1..out_width |->
          rows[((b - 1) * out_height + (i - 1)) * out_width + j].out[c]]]]]

\* _transform(theta, input, downsample_factor)
_transform(theta, input, downsample_factor, nanCast) ==
    LET num_batch == Dim0(input)
        num_channels == Dim1(input)
        height == Dim2(input)
        width == Dim3(input)
        out_height == OutSize(height, downsample_factor, nanCast)
        out_width == OutSize(width, downsample_factor, nanCast)
        grid == _meshgrid(out_height, out_width)
        s == SourceCoords(theta, grid)
        input_dim == Dimshuffle0231(input)
        input_transformed == _interpolate(input_dim, s.x_s_flat, s.y_s_flat,
                                          out_height, out_width, nanCast)
    IN  ReshapeOutput(input_transformed, num_batch, out_height, out_width,
                      num_channels)

\* TransformerLayer.get_output_shape_for(input_shapes)
get_output_shape_for(input_shapes, dsf) ==
    LET shp == input_shapes[1]
    IN  [a \in 1..Len(shp) |->
           IF a <= 2 THEN shp[a]
           ELSE IF shp[a] = None THEN None
           ELSE PyInt(FDiv(FInt(shp[a]), dsf))]

(***************************************************************************)
(* Inputs                                                                  *)
(***************************************************************************)
Channels == {1, 2}

\* downsample_factor values: 3/4 (upsampling), 1, 3/2 and 2
DsfSet == {F(3, 4), F(1, 1), F(3, 2), F(2, 1)}

\* theta rows [t1, t2, t3, t4, t5, t6]
ThetaIdentity == <<F(1, 1), F(0, 1), F(0, 1), F(0, 1), F(1, 1), F(0, 1)>>
ThetaShear == <<F(1, 2), F(1, 4), F(-1, 4), F(-1, 4), F(1, 2), F(-1, 4)>>
ThetaFar == <<F(4, 1), F(0, 1), F(3, 1), F(0, 1), F(-4, 1), F(-3, 1)>>
ThetaList == <<ThetaIdentity, ThetaShear, ThetaFar>>

\* theta matrices of shape (B, 6): the same row for every batch element, or
\* the rows of ThetaList in rotation
ThetaBatches(B) ==
    {[bi \in 1..B |-> ThetaList[k]] : k \in 1..Len(ThetaList)}
    \cup {[bi \in 1..B |-> ThetaList[((k + bi) % Len(ThetaList)) + 1]] :
            k \in 1..Len(ThetaList)}

\* an input of shape (B, C, H, W) whose pixels are pairwise different
\* positive integers
Image(B, C, H, W) ==
    [b \in 1..B |-> [c \in 1..C |-> [i \in 1..H |-> [j \in 1..W |->
        1 + (((b - 1) * C + (c - 1)) * H + (i - 1)) * W + (j - 1)]]]]

\* shapes a layer can declare for the transformer's input
GoodInputShapes ==
    {<<B, C, H, W>> : B \in 1..MaxBatch, C \in Channels,
                      H \in 1..MaxSize, W \in 1..MaxSize}
    \cup {<<None, C, None, None>> : C \in Channels}
BadInputShapes ==
    {<<>>, <<2>>, <<2, 2>>, <<None, 2, 2>>, <<2, 2, 2>>, <<2, 2, 2, 2, 2>>}
InputShapes == GoodInputShapes \cup BadInputShapes

\* output shapes of the localization network: rank 0..3
MaxLocRank == 3
LocShapes == UNION {[1..r -> {None, 5, 6}] : r \in 0..MaxLocRank}

\* a runtime size agrees with a declared size
Conforms(size, declared) == declared = None \/ declared = size

(***************************************************************************)
(* State                                                                   *)
(***************************************************************************)
VARIABLES
    pc,                 \* position of the TransformerLayer client
    status,             \* "none", "ok" or the exception raised
    input_shapes,       \* TransformerLayer.input_shapes
    downsample_factor,  \* TransformerLayer.downsample_factor
    output_shape,       \* result of get_output_shape_for
    input, theta,       \* arguments of the running forward call
    out_height, out_width,
    grid,               \* the sampling grid built last
    coords,             \* x_s_flat, y_s_flat
    samp,               \* per-pixel values of _interpolate
    output,             \* result of the forward call
    bias_pc,            \* position of the BiasLayer client
    bias_status,
    bias_args,          \* arguments b and shared_axes of BiasLayer.__init__
    bias_input_shape,   \* BiasLayer.input_shape
    shared_axes,        \* BiasLayer.shared_axes
    b,                  \* BiasLayer.b
    params,             \* parameters registered by add_param
    bias_input,         \* argument of BiasLayer.get_output_for
    bias_output         \* its result

tvars == <<pc, status, input_shapes, downsample_factor, output_shape, input,
           theta, out_height, out_width, grid, coords, samp, output>>
bvars == <<bias_pc, bias_status, bias_args, bias_input_shape, shared_axes, b, params,
           bias_input, bias_output>>
vars == <<tvars, bvars>>

NoCoords == [x_s_flat |-> <<>>, y_s_flat |-> <<>>]

TInit ==
    /\ pc = "new"
    /\ status = "none"
    /\ input_shapes = <<>>
    /\ downsample_factor = F(1, 1)
    /\ output_shape = <<>>
    /\ input = <<>>
    /\ theta = <<>>
    /\ out_height = 0
    /\ out_width = 0
    /\ grid = <<>>
    /\ coords = NoCoords
    /\ samp = <<>>
    /\ output = <<>>

(***************************************************************************)
(* TransformerLayer                                                        *)
(***************************************************************************)
\* TransformerLayer.__init__(input, localization_network, downsample_factor)
\* where the two incoming layers have output shapes input_shp and loc_shp
TransformerLayerInit(input_shp, loc_shp, dsf) ==
    /\ pc = "new"
    /\ input_shapes' = <<input_shp, loc_shp>>
    /\ downsample_factor' = dsf
    /\ status' = IF Len(loc_shp) = 0 THEN "IndexError"  \* loc_shp[-1]
                 ELSE IF loc_shp[Len(loc_shp)] # 6 \/ Len(loc_shp) # 2
                      THEN "ValueError"
                 ELSE IF Len(input_shp) # 4 THEN "ValueError"
                 ELSE "ok"
    /\ pc' = IF status' = "ok" THEN "built" ELSE "raised"
    /\ UNCHANGED <<output_shape, input, theta, out_height, out_width, grid,
                   coords, samp, output>>
    /\ UNCHANGED bvars

\* the layer's output_shape: get_output_shape_for(self.input_shapes)
GetOutputShape ==
    /\ pc = "built"
    /\ output_shape' = get_output_shape_for(input_shapes, downsample_factor)
    /\ pc' = "idle"
    /\ UNCHANGED <<status, input_shapes, downsample_factor, input, theta,
                   out_height, out_width, grid, coords, samp, output>>
    /\ UNCHANGED bvars

\* get_output_for(inputs): input, theta = inputs
GetOutputFor(inp, th) ==
    /\ pc = "idle"
    /\ input' = inp
    /\ theta' = th
    /\ pc' = "called"
    /\ UNCHANGED <<status, input_shapes, downsample_factor, output_shape,
                   out_height, out_width, grid, coords, samp, output>>
    /\ UNCHANGED bvars

\* _transform, up to grid = _meshgrid(out_height, out_width)
TransformGridCached ==
    /\ pc = "called"
    /\ \E nanCast \in CastOutcomes :
         LET oh == OutSize(Dim2(input), downsample_factor, nanCast)
             ow == OutSize(Dim3(input), downsample_factor, nanCast)
         IN  /\ out_height' = oh
             /\ out_width' = ow
             /\ grid' = IF grid # <<>> THEN grid ELSE _meshgrid(oh, ow)
    /\ pc' = "grid"
    /\ UNCHANGED <<status, input_shapes, downsample_factor, output_shape,
                   input, theta, coords, samp, output>>
    /\ UNCHANGED bvars
TransformGrid ==
    /\ pc = "called"
    /\ \E nanCast \in CastOutcomes :
         LET oh == OutSize(Dim2(input), downsample_factor, nanCast)
             ow == OutSize(Dim3(input), downsample_factor, nanCast)
         IN  /\ out_height' = oh
             /\ out_width' = ow
             /\ grid' = _meshgrid(oh, ow)
    /\ pc' = "grid"
    /\ UNCHANGED <<status, input_shapes, downsample_factor, output_shape,
                   input, theta, coords, samp, output>>
    /\ UNCHANGED bvars

\* _transform: T_g = T.dot(theta, grid) and the flattened x_s, y_s
TransformCoords ==
    /\ pc = "grid"
    /\ coords' = SourceCoords(theta, grid)
    /\ pc' = "coords"
    /\ UNCHANGED <<status, input_shapes, downsample_factor, output_shape,
                   input, theta, out_height, out_width, grid, samp, output>>
    /\ UNCHANGED bvars

\* _transform: _interpolate on the channel-last input, reshape, dimshuffle
TransformInterpolate ==
    /\ pc = "coords"
    /\ \E nanCast \in CastOutcomes :
         /\ samp' = _interpolate(Dimshuffle0231(input), coords.x_s_flat,
                                 coords.y_s_flat, out_height, out_width,
                                 nanCast)
         /\ output' = ReshapeOutput(samp', Dim0(input), out_height, out_width,
                                    Dim1(input))
    /\ status' = IF \A p \in 1..Len(samp') :
                       \A idx \in {samp'[p].idx_a, samp'[p].idx_b,
                                   samp'[p].idx_c, samp'[p].idx_d} :
                          IndexOk(Dim0(input) * Dim2(input) * Dim3(input), idx)
                 THEN "ok" ELSE "IndexError"
    /\ pc' = "done"
    /\ UNCHANGED <<input_shapes, downsample_factor, output_shape, input,
                   theta, out_height, out_width, grid, coords>>
    /\ UNCHANGED bvars

\* the call returns; its arguments and locals are gone
Return ==
    /\ pc = "done"
    /\ pc' = "idle"
    /\ input' = <<>>
    /\ theta' = <<>>
    /\ out_height' = 0
    /\ out_width' = 0
    /\ coords' = NoCoords
    /\ samp' = <<>>
    /\ output' = <<>>
    /\ UNCHANGED <<status, input_shapes, downsample_factor, output_shape,
                   grid>>
    /\ UNCHANGED bvars

(***************************************************************************)
(* BiasLayer                                                               *)
(***************************************************************************)
MaxBiasRank == 3
MaxBiasSize == 2

\* the entry 'x' of a dimshuffle pattern
X == -1

\* index tuples (0-based entries) of a tensor of the given concrete shape
Indices(shape) ==
    {ix \in [1..Len(shape) -> 0..(MaxBiasSize - 1)] : \A a \in 1..Len(shape) : ix[a] < shape[a]}

\* row-major position of an index tuple
RECURSIVE FlatIndex(_, _)
FlatIndex(ix, shape) ==
    IF Len(ix) = 0 THEN 0
    ELSE FlatIndex(SubSeq(ix, 1, Len(ix) - 1), SubSeq(shape, 1, Len(shape) - 1))
           * shape[Len(shape)] + ix[Len(ix)]

\* an input tensor of the given shape with pairwise different entries
BiasInput(shape) == [ix \in Indices(shape) |-> 1 + FlatIndex(ix, shape)]

\* axis in shared_axes, for a tuple shared_axes and a 0-based axis
InAxes(axis, axes) == \E k \in 1..Len(axes) : axes[k] = axis

\* [size for axis, size in enumerate(input_shape) if axis not in shared_axes]
BiasShapeKeepAll(input_shape, axes, axis) == input_shape
RECURSIVE BiasShape(_, _, _)
BiasShape(input_shape, axes, axis) ==
    IF axis >= Len(input_shape) THEN <<>>
    ELSE (IF InAxes(axis, axes) THEN <<>> ELSE <<input_shape[axis + 1]>>)
         \o BiasShape(input_shape, axes, axis + 1)

\* shared_axes as stored by __init__; the argument is 'auto', an int or a
\* tuple of ints
SharedAxes(arg, input_shape) ==
    IF arg.kind = "auto"
    THEN <<0>> \o [k \in 1..(IF Len(input_shape) > 2 THEN Len(input_shape) - 2
                             ELSE 0) |-> k + 1]
    ELSE IF arg.kind = "int" THEN <<arg.axes[1]>>
    ELSE arg.axes

\* the dimshuffle pattern of get_output_for: 'x' on shared axes, the bias
\* axes 0, 1, ... in order on the others
RECURSIVE Pattern(_, _, _, _)
Pattern(ndim, axes, input_axis, next_bias_axis) ==
    IF input_axis >= ndim THEN <<>>
    ELSE IF InAxes(input_axis, axes)
         THEN <<X>> \o Pattern(ndim, axes, input_axis + 1, next_bias_axis)
         ELSE <<next_bias_axis>>
              \o Pattern(ndim, axes, input_axis + 1, next_bias_axis + 1)

\* index into b of the element that b.dimshuffle(*pattern) puts at ix
BiasIndex(ix, pattern) ==
    LET kept == SelectSeq([a \in 1..Len(ix) |-> a], LAMBDA a : pattern[a] # X)
    IN  [k \in 1..Len(kept) |-> ix[kept[k]]]

\* self.b = None
NoBias == [none |-> TRUE, shape |-> <<>>, value |-> [ix \in {} |-> 0]]

\* BiasLayer.__init__(incoming, b, shared_axes) for an incoming shape;
\* b_arg is None or an initializer lasagne.init.Constant(val)
BiasLayerInit(incoming, b_arg, shared_axes_arg) ==
    /\ bias_pc = "new"
    /\ bias_args' = [b |-> b_arg, shared_axes |-> shared_axes_arg]
    /\ bias_input_shape' = incoming
    /\ shared_axes' = SharedAxes(shared_axes_arg, incoming)
    /\ LET shape == BiasShape(incoming, shared_axes', 0)
       IN  IF b_arg.none
           THEN /\ b' = NoBias
                /\ params' = <<>>
                /\ bias_status' = "ok"
           ELSE IF \E k \in 1..Len(shape) : shape[k] = None
           THEN /\ b' = NoBias
                /\ params' = <<>>
                /\ bias_status' = "ValueError"
           ELSE /\ b' = [none |-> FALSE, shape |-> shape,
                       value |-> [ix \in Indices(shape) |-> b_arg.val]]
                /\ params' = <<[name |-> "b", shape |-> shape,
                                regularizable |-> FALSE]>>
                /\ bias_status' = "ok"
    /\ bias_pc' = IF bias_status' = "ok" THEN "built" ELSE "raised"
    /\ UNCHANGED <<bias_input, bias_output>>
    /\ UNCHANGED tvars

\* BiasLayer.get_output_for(input) for an input of the given concrete shape
BiasGetOutputFor(shape) ==
    /\ bias_pc = "built"
    /\ bias_input' = BiasInput(shape)
    /\ IF ~b.none
       THEN LET pattern == Pattern(Len(shape), shared_axes, 0, 0)
            IN  bias_output' = [ix \in Indices(shape) |->
                                  bias_input'[ix]
                                    + b.value[BiasIndex(ix, pattern)]]
       ELSE bias_output' = bias_input'
    /\ bias_pc' = "done"
    /\ UNCHANGED <<bias_status, bias_args, bias_input_shape, shared_axes, b,
                   params>>
    /\ UNCHANGED tvars

\* incoming shapes of a BiasLayer: rank 0..MaxBiasRank, sizes known or None
BiasShapes ==
    UNION {[1..r -> {None} \cup 1..MaxBiasSize] : r \in 0..MaxBiasRank}

\* shared_axes arguments: 'auto', an int, or a tuple of ints
AxisTuples == {<<>>, <<0>>, <<1>>, <<2>>, <<0, 1>>, <<0, 2>>, <<1, 2>>,
               <<2, 0>>, <<0, 1, 2>>}
SharedAxesArgs ==
    {[kind |-> "auto", axes |-> <<>>]}
    \cup {[kind |-> "int", axes |-> <<a>>] : a \in -1..2}
    \cup {[kind |-> "tuple", axes |-> t] : t \in AxisTuples}

\* b arguments: None, init.Constant(0), init.Constant(3)
BArgs == {[none |-> TRUE, val |-> 0], [none |-> FALSE, val |-> 0],
          [none |-> FALSE, val |-> 3]}

BInit ==
    /\ bias_pc = "new"
    /\ bias_status = "none"
    /\ bias_args = [b |-> [none |-> TRUE, val |-> 0],
                    shared_axes |-> [kind |-> "auto", axes |-> <<>>]]
    /\ bias_input_shape = <<>>
    /\ shared_axes = <<>>
    /\ b = NoBias
    /\ params = <<>>
    /\ bias_input = [ix \in {} |-> 0]
    /\ bias_output = [ix \in {} |-> 0]

(***************************************************************************)
(* Specifications                                                          *)
(***************************************************************************)
\* a client that builds a TransformerLayer and runs forward passes on it
Init == TInit /\ BInit
Next ==
    \/ /\ pc = "new"
       /\ \E input_shp \in InputShapes, loc_shp \in LocShapes, dsf \in DsfSet :
             TransformerLayerInit(input_shp, loc_shp, dsf)
    \/ GetOutputShape
    \/ /\ pc = "idle"
       /\ \E B \in 1..MaxBatch, H \in 1..MaxSize, W \in 1..MaxSize,
          C \in Channels :
          /\ Conforms(B, input_shapes[1][1]) /\ Conforms(C, input_shapes[1][2])
          /\ Conforms(H, input_shapes[1][3]) /\ Conforms(W, input_shapes[1][4])
          /\ Conforms(B, input_shapes[2][1])
          /\ \E th \in ThetaBatches(B) : GetOutputFor(Image(B, C, H, W), th)
    \/ TransformGrid
    \/ TransformCoords
    \/ TransformInterpolate
    \/ Return
Spec == Init /\ [][Next]_vars

\* a client that builds a BiasLayer and runs it once
NextBias ==
    \/ /\ bias_pc = "new"
       /\ \E incoming \in BiasShapes, b_arg \in BArgs,
             shared_axes_arg \in SharedAxesArgs :
             BiasLayerInit(incoming, b_arg, shared_axes_arg)
    \/ \E shape \in [1..Len(bias_input_shape) -> 1..MaxBiasSize] :
          /\ \A a \in 1..Len(shape) : Conforms(shape[a], bias_input_shape[a])
          /\ BiasGetOutputFor(shape)
SpecBias == Init /\ [][NextBias]_vars

(***************************************************************************)
(* Properties                                                              *)
(***************************************************************************)
\* shape of the input of the running forward call
NumBatch == Dim0(input)
NumChannels == Dim1(input)
Height == Dim2(input)
Width == Dim3(input)

InCall == pc \in {"called", "grid", "coords", "done"}
GridBuilt == pc \in {"grid", "coords", "done"}

\* theta is the identity matrix for every batch element
IdentityTheta == \A bi \in 1..Len(theta) : theta[bi] = ThetaIdentity

\* floor(size / d) for size >= 0 and a positive number d: the largest
\* integer q with q * d <= size
FloorRatio(size, d) ==
    CHOOSE q \in 0..(size * d.d) :
        q * d.n <= size * d.d /\ (q + 1) * d.n > size * d.d

\* C1: with theta the identity for every batch element and
\* downsample_factor = 1, the forward pass returns an output of the input's
\* shape whose element (b, c, i, j) equals input element (b, c, i, j).
C1_IdentityReproducesInput ==
    (pc = "done" /\ IdentityTheta /\ downsample_factor = F(1, 1)) =>
        /\ Dim0(output) = NumBatch
        /\ Dim1(output) = NumChannels
        /\ \A bi \in 1..NumBatch, c \in 1..NumChannels :
              /\ Len(output[bi][c]) = Height
              /\ \A i \in 1..Height :
                    /\ Len(output[bi][c][i]) = Width
                    /\ \A j \in 1..Width :
                          output[bi][c][i][j] = FInt(input[bi][c][i][j])

\* C2: for every input shape (batch, channels, H, W) and every
\* downsample_factor d > 0 the output shape is
\* (batch, channels, floor(H/d), floor(W/d)): the shape declared by
\* get_output_shape_for (unknown sizes stay unknown), out_height and
\* out_width of _transform, and the shape of the tensor it returns all have
\* this value, and the declared and the actual shape agree.
C2_OutputSize ==
    /\ pc \in {"idle", "called", "grid", "coords", "done"} =>
          LET shp == input_shapes[1]
          IN  /\ Len(output_shape) = 4
              /\ output_shape[1] = shp[1]
              /\ output_shape[2] = shp[2]
              /\ \A a \in 3..4 :
                    output_shape[a] =
                       IF shp[a] = None THEN None
                       ELSE FloorRatio(shp[a], downsample_factor)
    /\ GridBuilt =>
          /\ out_height = FloorRatio(Height, downsample_factor)
          /\ out_width = FloorRatio(Width, downsample_factor)
    /\ pc = "done" =>
          LET actual == <<NumBatch, NumChannels,
                          FloorRatio(Height, downsample_factor),
                          FloorRatio(Width, downsample_factor)>>
          IN  /\ Dim0(output) = actual[1]
              /\ Dim1(output) = actual[2]
              /\ \A bi \in 1..NumBatch, c \in 1..NumChannels :
                    /\ Len(output[bi][c]) = actual[3]
                    /\ \A i \in 1..actual[3] :
                          Len(output[bi][c][i]) = actual[4]
              /\ \A a \in 1..4 :
                    output_shape[a] # None => output_shape[a] = actual[a]

C2_Witness ==
    /\ pc = "done"
    /\ downsample_factor = F(3, 4)
    /\ input_shapes[1] = <<1, 2, 3, 2>>
    /\ output_shape = <<1, 2, 4, 2>>
    /\ Len(output[1][2]) = 4
    /\ Len(output[1][2][4]) = 2

\* C3: constructing a TransformerLayer raises the shape error (ValueError in
\* the source) exactly when the localization network's output shape does
\* not have rank 2 with last dimension 6, or the input's shape does not have
\* rank 4; in every other case construction succeeds; the error is raised
\* at construction, before any forward computation.
C3_ShapeValidation ==
    pc \in {"built", "raised"} =>
        LET input_shp == input_shapes[1]
            loc_shp == input_shapes[2]
            bad == \/ ~(Len(loc_shp) = 2 /\ loc_shp[2] = 6)
                   \/ Len(input_shp) # 4
        IN  /\ (status = "ValueError") <=> bad
            /\ (status = "ok") <=> ~bad
            /\ (pc = "raised") <=> bad
            /\ pc = "raised" => (output = <<>> /\ grid = <<>> /\ input = <<>>)

\* C4: for every source coordinate, however far outside [-1, 1] (and also
\* when it is NaN), the clipped corners satisfy 0 <= x0, x1 <= width - 1 and
\* 0 <= y0, y1 <= height - 1, and each of the four flat gather indices of an
\* output pixel of batch element b lies in
\* [b*height*width, (b+1)*height*width - 1]; no lookup fails.
C4_BoundaryClamp ==
    pc = "done" =>
        /\ status = "ok"
        /\ \A p \in 1..Len(samp) :
              LET bi == (p - 1) \div (out_height * out_width)
                  lo == bi * Height * Width
                  hi == (bi + 1) * Height * Width - 1
              IN  /\ 0 <= samp[p].x0 /\ samp[p].x0 <= Width - 1
                  /\ 0 <= samp[p].x1 /\ samp[p].x1 <= Width - 1
                  /\ 0 <= samp[p].y0 /\ samp[p].y0 <= Height - 1
                  /\ 0 <= samp[p].y1 /\ samp[p].y1 <= Height - 1
                  /\ \A idx \in {samp[p].idx_a, samp[p].idx_b,
                                 samp[p].idx_c, samp[p].idx_d} :
                        lo <= idx /\ idx <= hi

\* a pixel of the second batch element whose source coordinate lies more
\* than a whole image to the right of and above the input
C4_Witness ==
    /\ pc = "done"
    /\ NumBatch = 2
    /\ \E p \in 1..Len(samp) :
          /\ (p - 1) \div (out_height * out_width) = 1
          /\ FLt(FInt(2 * Width), samp[p].x)
          /\ FLt(samp[p].y, FInt(-Height))
          /\ samp[p].idx_a = Height * Width + (Width - 1)

\* C5: for every source coordinate (x, y) given to _interpolate (a pair of
\* numbers) the four weights satisfy wa + wb + wc + wd = 1.
C5_WeightsSumToOne ==
    pc = "done" =>
        \A p \in 1..Len(samp) :
          (IsNum(samp[p].x) /\ IsNum(samp[p].y)) =>
            FAdd(FAdd(FAdd(samp[p].wa, samp[p].wb), samp[p].wc), samp[p].wd)
               = F(1, 1)


\* C6: for out_height h >= 1 and out_width w >= 1 (including
\* generate(1, 5)), _meshgrid(h, w) is a 3 x (h*w) matrix whose row 0 is the
\* x sequence repeated for each of the h rows, row 1 is the y value of each
\* row repeated w times, and row 2 is all ones; each linear sequence starts
\* at exactly -1, ends at exactly 1 (one point: -1, as np.linspace) with
\* equal steps, so every x and y entry lies in [-1, 1].
C6_GridGenerator ==
    (GridBuilt /\ out_height >= 1 /\ out_width >= 1) =>
        LET n == out_height * out_width
            Lin(num, i) == IF num = 1 THEN F(-1, 1)
                           ELSE F(2 * i - (num - 1), num - 1)
        IN  /\ Len(grid) = 3
            /\ \A r \in 1..3 : Len(grid[r]) = n
            /\ \A q \in 1..n :
                  /\ grid[1][q] = Lin(out_width, (q - 1) % out_width)
                  /\ grid[2][q] = Lin(out_height, (q - 1) \div out_width)
                  /\ grid[3][q] = F(1, 1)
                  /\ FLe(F(-1, 1), grid[1][q]) /\ FLe(grid[1][q], F(1, 1))
                  /\ FLe(F(-1, 1), grid[2][q]) /\ FLe(grid[2][q], F(1, 1))

\* the axes the biases are shared over, by the documentation of shared_axes
DocumentedSharedAxes(arg, rank) ==
    IF arg.kind = "auto" THEN (0..(rank - 1)) \ {1}
    ELSE {arg.axes[k] : k \in 1..Len(arg.axes)}
DocumentedBiasAxes(arg, rank) == (0..(rank - 1)) \ DocumentedSharedAxes(arg, rank)
\* the k-th smallest element of a set of axes
KthAxis(axes, k) ==
    CHOOSE a \in axes : Cardinality({a2 \in axes : a2 < a}) = k - 1

\* C7: BiasLayer construction with a bias initializer raises the shape error
\* (ValueError in the source) exactly when some axis of the input shape that
\* is not in shared_axes has unknown size; otherwise it registers one bias
\* parameter whose shape is the input shape with the shared axes removed,
\* the remaining axes in their original order ('auto' sharing every axis
\* except axis 1, an int that single axis).  With b = None no parameter is
\* created, no error is raised, and the output equals the input.
C7_BiasLayer ==
    bias_pc # "new" =>
        LET rank == Len(bias_input_shape)
            kept == DocumentedBiasAxes(bias_args.shared_axes, rank)
        IN  IF bias_args.b.none
            THEN /\ bias_status = "ok"
                 /\ params = <<>>
                 /\ b.none
                 /\ bias_pc = "done" => bias_output = bias_input
            ELSE /\ (bias_status = "ValueError") <=>
                       (\E a \in kept : bias_input_shape[a + 1] = None)
                 /\ (bias_pc = "raised") <=> (bias_status = "ValueError")
                 /\ bias_pc = "raised" => params = <<>>
                 /\ bias_status # "ValueError" =>
                       /\ bias_status = "ok"
                       /\ Len(params) = 1
                       /\ params[1].name = "b"
                       /\ b.shape = params[1].shape
                       /\ Len(params[1].shape) = Cardinality(kept)
                       /\ \A k \in 1..Cardinality(kept) :
                             params[1].shape[k] =
                                bias_input_shape[KthAxis(kept, k) + 1]

C7_Witness ==
    /\ bias_pc = "done"
    /\ bias_args.shared_axes = [kind |-> "tuple", axes |-> <<2, 0>>]
    /\ ~bias_args.b.none
    /\ bias_input_shape = <<None, 2, None>>
    /\ Len(params) = 1
    /\ params[1].shape = <<2>>

\* C8: whenever out_height = 1 or out_width = 1 the forward pass reaches
\* _linspace with num = 1 and divides by num - 1 = 0: the sequence is the
\* single value 0 * (2 / 0) + start = NaN, not the single point start, and
\* neither __init__, get_output_shape_for, _transform, _meshgrid nor
\* _linspace raises an error for this size.
C8_DegenerateUnguarded ==
    (GridBuilt /\ (out_height = 1 \/ out_width = 1)) =>
        /\ status = "ok"
        /\ Len(grid) = 3
        /\ out_width = 1 =>
              /\ Len(grid[1]) = out_height
              /\ \A q \in 1..Len(grid[1]) :
                    IsNaN(grid[1][q]) /\ grid[1][q] # FInt(-1)
        /\ out_height = 1 =>
              /\ Len(grid[2]) = out_width
              /\ \A q \in 1..Len(grid[2]) :
                    IsNaN(grid[2][q]) /\ grid[2][q] # FInt(-1)

C8_Witness ==
    /\ pc = "done"
    /\ Height = 3
    /\ downsample_factor = F(2, 1)
    /\ out_height = 1
    /\ out_width = 1
    /\ output_shape = <<2, 1, 1, 1>>
    /\ IsNaN(output[2][1][1][1])

C10_ClippedWeights ==
    pc = "done" =>
        \A p \in 1..Len(samp) :
            LET px == samp[p].x
                py == samp[p].y
                bi == ((p - 1) \div (out_height * out_width)) + 1
                q == ((p - 1) % (out_height * out_width)) + 1
                wsum == FAdd(FAdd(FAdd(samp[p].wa, samp[p].wb), samp[p].wc),
                             samp[p].wd)
                inX == FLe(FInt(0), px) /\ FLt(px, FInt(Width - 1))
                inY == FLe(FInt(0), py) /\ FLt(py, FInt(Height - 1))
                ix == FloorInt(px)
                iy == FloorInt(py)
                fx == FSub(px, FInt(ix))
                fy == FSub(py, FInt(iy))
                one == FInt(1)
                Blend(c) ==
                    FAdd(FAdd(FAdd(
                        FMul(FMul(FSub(one, fx), FSub(one, fy)),
                             FInt(input[bi][c][iy + 1][ix + 1])),
                        FMul(FMul(FSub(one, fx), fy),
                             FInt(input[bi][c][iy + 2][ix + 1]))),
                        FMul(FMul(fx, FSub(one, fy)),
                             FInt(input[bi][c][iy + 1][ix + 2]))),
                        FMul(FMul(fx, fy),
                             FInt(input[bi][c][iy + 2][ix + 2])))
            IN  (IsNum(px) /\ IsNum(py)) =>
                  /\ wsum = FInt((samp[p].x1 - samp[p].x0)
                                   * (samp[p].y1 - samp[p].y0))
                  /\ ~inX => samp[p].x0 = samp[p].x1
                  /\ ~inY => samp[p].y0 = samp[p].y1
                  /\ ~(inX /\ inY) =>
                        /\ wsum = FInt(0)
                        /\ \A c \in 1..NumChannels : samp[p].out[c] = FInt(0)
                  /\ (inX /\ inY) =>
                        /\ wsum = FInt(1)
                        /\ \A c \in 1..NumChannels : samp[p].out[c] = Blend(c)
                  /\ (IdentityTheta /\ grid[1][q] = FInt(1)) =>
                        /\ px = FInt(Width)
                        /\ \A c \in 1..NumChannels : samp[p].out[c] = FInt(0)

\* a 3 x 3 input under the identity transform: the pixel at x_t = 1 is zero,
\* and some pixel is a proper blend of four different neighbours
C10_Witness ==
    /\ pc = "done"
    /\ IdentityTheta
    /\ downsample_factor = F(1, 1)
    /\ Height = 3 /\ Width = 3
    /\ \E p \in 1..Len(samp) :
          /\ samp[p].x = FInt(Width)
          /\ samp[p].x0 = Width - 1 /\ samp[p].x1 = Width - 1
          /\ samp[p].out[1] = FInt(0)
    /\ \E p \in 1..Len(samp) :
          /\ samp[p].x = F(3, 2) /\ samp[p].y = F(3, 2)
          /\ samp[p].wa = F(1, 4)
          /\ samp[p].out[1] = FInt(7)

====
